---- MODULE Spec2Model ----
(***************************************************************************)
(* State-machine model of pdf_toolkit.py: the single-document operations   *)
(* (masking_to_pdf, grid_to_pdf, header_to_pdf, pagenum_to_pdf,            *)
(* header_and_pagenum_to_pdf, header_and_frame_to_pdf), concat_pdf and the *)
(* *_in_folder drivers, over an abstract file system and document library. *)
(***************************************************************************)
EXTENDS Integers, Sequences, FiniteSets, TLC

VARIABLES
    fs,        \* file system: path -> content (<<>> absent, <<"orig">>, <<"written", op>>)
    dirs,      \* set of existing directories
    pc,        \* position of the running single-document operation / concat_pdf
    call,      \* arguments of the running operation
    srcPages,  \* pages of the opened source document (rotation is mutable)
    outPages,  \* pages of the output document being built
    pageIdx,   \* loop index of the page loop (1-based here, page_idx + 1)
    hnd,       \* local document variables: name -> "unbound" | "open" | "closed"
    ev,        \* observation log of the running call (opens, closes, writes, ...)
    bpc,       \* position of the running folder operation
    bcall,     \* arguments of the running folder operation
    queue,     \* files still to be visited by the folder loop / concat loop
    invoked    \* single-document invocations made by the folder operation

vars == <<fs, dirs, pc, call, srcPages, outPages, pageIdx, hnd, ev,
          bpc, bcall, queue, invoked>>

-----------------------------------------------------------------------------
(* Bounds of the model *)

MaxPages == 2

-----------------------------------------------------------------------------
(* Values *)

Max(a, b) == IF a >= b THEN a ELSE b
Min(a, b) == IF a <= b THEN a ELSE b

\* pymupdf.Rect(x0, y0, x1, y1): stored as given, never normalised
Rect(x0, y0, x1, y1) == [x0 |-> x0, y0 |-> y0, x1 |-> x1, y1 |-> y1]

\* a float of the frame arithmetic, kept exact: the fraction n/d in lowest
\* terms with d > 0 (rounding of the floating-point operations is left out)
RECURSIVE GCD(_, _)
GCD(a, b) == IF b = 0 THEN a ELSE GCD(b, a % b)
Rat(n, d) ==
    LET abs(x) == IF x < 0 THEN 0 - x ELSE x
        g == GCD(abs(n), abs(d))
        s == IF d < 0 THEN 0 - 1 ELSE 1
    IN  [n |-> (s * n) \div g, d |-> (s * d) \div g]
Whole(x)     == Rat(x, 1)
RatAdd(a, b) == Rat(a.n * b.d + b.n * a.d, a.d * b.d)
RatSub(a, b) == Rat(a.n * b.d - b.n * a.d, a.d * b.d)
RatMul(a, b) == Rat(a.n * b.n, a.d * b.d)
RatDiv(a, b) == Rat(a.n * b.d, a.d * b.n)
RatLeq(a, b) == a.n * b.d <= b.n * a.d
RatMin(a, b) == IF RatLeq(a, b) THEN a ELSE b

\* create_rect(x, y, width, height), called with floats
create_rect(x, y, width, height) == Rect(x, y, RatAdd(x, width), RatAdd(y, height))

\* pymupdf Rect.width / Rect.height as read by the code (never negative)
RectWidth(r)  == Max(0, r.x1 - r.x0)
RectHeight(r) == Max(0, r.y1 - r.y0)

\* pymupdf Rect.is_valid (x0 <= x1 and y0 <= y1) and Rect.is_empty
RectIsValid(r) == r.x0 <= r.x1 /\ r.y0 <= r.y1
RectIsEmpty(r) == r.x0 >= r.x1 \/ r.y0 >= r.y1

\* lengths that need not be whole points are counted in 1/GridScale point
GridScale == 2

\* a page of a document: page.rect (width, height) and page.rotation;
\* w, h are the whole points of the size, wf, hf what exceeds them, in
\* 1/GridScale point (only grid_to_pdf is run on pages with wf, hf # 0)
Page(w, h, rot) == [w |-> w, h |-> h, rot |-> rot, wf |-> 0, hf |-> 0]
FracPage(w, wf, h, hf, rot) == [w |-> w, h |-> h, rot |-> rot, wf |-> wf, hf |-> hf]

PageKinds == { Page(200, 300, 0), Page(100, 100, 0), Page(300, 200, 90) }

\* the documents an input file may hold
Docs == UNION { [1..n -> PageKinds] : n \in 1..MaxPages }

-----------------------------------------------------------------------------
(* File system *)

\* a path: directory, file stem (its characters), extension
Path(d, stem, ext) == [dir |-> d, stem |-> stem, ext |-> ext]

\* output_folder_abspath + "/" + os.path.basename(pdf_in_file)
OutPathFor(outdir, f) == Path(outdir, f.stem, f.ext)

Absent  == <<>>
Orig    == <<"orig">>
Written(op) == <<"written", op>>

\* a character of a file name is a number: a digit is its value, any other
\* character its code point
CharSpace   == 32
CharColon   == 58
CharLetterA == 97
CharWideSpace == 12288      \* U+3000, the full-width space

\* the stems of the files of the input directory: "1", "2", "10"
Stems == { <<1>>, <<2>>, <<1, 0>> }

InFiles   == { Path("in", s, "pdf") : s \in Stems }
NotesFile == Path("in", <<7>>, "txt")
GoneFile  == Path("in", <<9>>, "pdf")
OutFiles  == { Path(d, s, "pdf") : d \in {"out", "fresh"}, s \in Stems }
MergedOut == Path("out", <<5>>, "pdf")
\* a file whose name is one space: " .pdf", in a directory of its own
BlankFile == Path("etc", << CharSpace >>, "pdf")

Paths == InFiles \cup OutFiles \cup {NotesFile, GoneFile, MergedOut, BlankFile}

\* os.path.exists on a file path / on a directory
Exists(p)    == fs[p] # Absent
DirExists(d) == d \in dirs

-----------------------------------------------------------------------------
(* Arguments of a single-document call *)

Ops == {"masking", "grid", "header", "pagenum", "combined"}

\* a requested mask: a pymupdf.Rect, or some other value (isRect = FALSE)
Mask(isRect, r) == [isRect |-> isRect, r |-> r]

MaskKinds == { Mask(TRUE,  Rect(10, 10, 50, 60)),     \* proper
               Mask(TRUE,  Rect(10, 10, 10, 60)),     \* degenerate: zero width
               Mask(TRUE,  Rect(50, 60, 10, 10)),     \* inverted
               Mask(FALSE, Rect(10, 10, 50, 60)) }    \* a tuple, not a Rect

MaxMasks == 2

MaskLists == UNION { [1..n -> MaskKinds] : n \in 0..MaxMasks }

HeaderHeights == {70, 150}
FooterHeights == {30, 160}

Config(resize, hh, fh, masks, writePagenum, showTotal, stampFirst, drawBorder) ==
    [resize |-> resize, hh |-> hh, fh |-> fh, masks |-> masks,
     writePagenum |-> writePagenum, showTotal |-> showTotal,
     stampFirst |-> stampFirst, drawBorder |-> drawBorder,
     interval |-> 0, delimiter |-> "Space"]

\* grid_to_pdf called with grid_interval = interval / GridScale points
GridConfig(interval) ==
    [Config(FALSE, 0, 0, <<>>, FALSE, FALSE, FALSE, FALSE) EXCEPT !.interval = interval]

\* the grid intervals of the calls made on whole documents: 100.0 points
GridIntervals == { 100 * GridScale }

\* the configurations each operation is called with (the parameters an
\* operation does not have are held at a fixed filler value)
ConfigsOf(op) ==
    CASE op = "masking" ->
           { Config(FALSE, 0, 0, m, FALSE, FALSE, FALSE, FALSE) : m \in MaskLists }
      [] op = "grid" ->
           { GridConfig(iv) : iv \in GridIntervals }
      [] op = "header" ->
           { Config(r, hh, 0, <<>>, FALSE, FALSE, sf, FALSE) :
               r \in BOOLEAN, hh \in HeaderHeights, sf \in BOOLEAN }
      [] op = "pagenum" ->
           { Config(r, 0, fh, <<>>, TRUE, st, FALSE, FALSE) :
               r \in BOOLEAN, fh \in FooterHeights, st \in BOOLEAN }
      [] op = "combined" ->
           { Config(r, hh, fh, <<>>, TRUE, FALSE, sf, TRUE) :
               r \in BOOLEAN, hh \in HeaderHeights, fh \in FooterHeights,
               sf \in BOOLEAN }

Call(op, inp, out, overwrite, cfg) ==
    [op |-> op, inp |-> inp, indir |-> inp.dir, out |-> out,
     overwrite |-> overwrite, cfg |-> cfg, outPre |-> fs[out]]

NoCall ==
    [op |-> "none", inp |-> GoneFile, indir |-> "in", out |-> GoneFile,
     overwrite |-> TRUE,
     cfg |-> Config(FALSE, 0, 0, <<>>, FALSE, FALSE, FALSE, FALSE),
     outPre |-> Absent]

-----------------------------------------------------------------------------
(* split_by_delimiter *)

\* class Delimiters(Enum)
Delimiters == {"No", "Space", "Colon", "Semicolon", "Comma", "Hyphen",
               "Underscore", "Slash", "Backslash", "At", "Pipe"}

\* the character a variant splits at (Space splits at white space instead)
DelimChar(d) ==
    CASE d = "Colon" -> CharColon [] d = "Semicolon" -> 59 [] d = "Comma" -> 44
      [] d = "Hyphen" -> 45 [] d = "Underscore" -> 95 [] d = "Slash" -> 47
      [] d = "Backslash" -> 92 [] d = "At" -> 64 [] d = "Pipe" -> 124

\* str.isspace of one character
IsWhitespace(ch) == ch \in {CharSpace, CharWideSpace}

\* the positions of text that hold a character of a set
PositionsOf(text, chars) == { n \in DOMAIN text : text[n] \in chars }

\* the least element of a non-empty set of numbers
Least(S) == CHOOSE n \in S : \A m \in S : n <= m

\* what a function call yields: a value, or an exception
Returns(v) == [raises |-> FALSE, value |-> v]
Raises     == [raises |-> TRUE,  value |-> << >>]

\* text.split(sep)[0]: the text before the first sep, the whole text without one
SplitAtFirst(text, ch) ==
    IF PositionsOf(text, {ch}) = {} THEN Returns(text)
    ELSE Returns(SubSeq(text, 1, Least(PositionsOf(text, {ch})) - 1))

\* text.split()[0]: the first run of characters that are not white space;
\* IndexError when there is none
SplitWhitespaceFirst(text) ==
    LET solid == { n \in DOMAIN text : ~IsWhitespace(text[n]) }
    IN  IF solid = {} THEN Raises
        ELSE LET from  == Least(solid)
                 stops == { n \in DOMAIN text : n > from /\ IsWhitespace(text[n]) }
                 to    == IF stops = {} THEN Len(text) ELSE Least(stops) - 1
             IN  Returns(SubSeq(text, from, to))

split_by_delimiter(text, delimiter) ==
    IF delimiter = "No" THEN Returns(text)
    ELSE IF delimiter = "Space" THEN SplitWhitespaceFirst(text)
    ELSE SplitAtFirst(text, DelimChar(delimiter))

\* header_text_content = split_by_delimiter(os.path.splitext(base_name)[0], delimiter)
HasHeaderText(op) == op \in {"header", "combined"}
HeaderTextOf(c) == split_by_delimiter(c.inp.stem, c.cfg.delimiter)
HeaderTextRaises(c) == HasHeaderText(c.op) /\ HeaderTextOf(c).raises

\* the log of a call after split_by_delimiter(text, d) was evaluated in it
AfterSplit(e, text, d) ==
    LET res == split_by_delimiter(text, d)
    IN  [e EXCEPT !.split = IF res.raises THEN "raised" ELSE "ok",
                  !.splitArgs = << text, d >>,
                  !.headerText = res.value]
AfterHeaderText(e, c) ==
    IF HasHeaderText(c.op) THEN AfterSplit(e, c.inp.stem, c.cfg.delimiter) ELSE e

-----------------------------------------------------------------------------
(* Guards of the single-document operations *)

\* if(not os.path.exists(input_pdf_path)): fatal, return
GuardMissingInput(c) == ~Exists(c.inp)

\* if(input_pdf_path == output_pdf_path): fatal, return
GuardSamePath(c) == c.inp = c.out

\* if(not overwrite and os.path.exists(output_pdf_path)): fatal ...
GuardOutputExists(c) == ~c.overwrite /\ Exists(c.out)

\* ... followed by `return` in masking_to_pdf and grid_to_pdf only
OverwriteGuardReturns(op) == op \in {"masking", "grid"}

\* the guard sequence logs at fatal severity
GuardLogsFatal(c) ==
    GuardMissingInput(c) \/ GuardSamePath(c) \/ GuardOutputExists(c)

\* the guard sequence leaves the function (through its finally block)
GuardReturns(c) ==
    \/ GuardMissingInput(c)
    \/ GuardSamePath(c)
    \/ GuardOutputExists(c) /\ OverwriteGuardReturns(c.op)

-----------------------------------------------------------------------------
(* Per-page layout and the library calls made for one page *)

NoRect == Rect(0, 0, 0, 0)

\* text handed to insert_textbox: the header label, or a page number
\* f"{lead}{num}" / f"{lead}{num} / {total}" (total = 0: not shown)
Text(kind, lead, num, total) ==
    [kind |-> kind, lead |-> lead, num |-> num, total |-> total]
NoText == Text("none", FALSE, 0, 0)

\* one library call made while a page is processed (the construction of a
\* region rectangle included: "header_rect", "footer_rect", "content_rect")
Ev(f, r, t) == [f |-> f, r |-> r, t |-> t]

\* a loop body that never removes the rotation
NoRotationCalls(p) == << >>

\* if(page.rotation != 0): page.remove_rotation()
RotationCalls(p) ==
    IF p.rot # 0 THEN << Ev("remove_rotation", NoRect, NoText) >> ELSE << >>
Unrotated(p) == [p EXCEPT !.rot = 0]

\* header_actual_rect / actual_header_rect
HeaderRect(w, h, hh) == Rect(0, 0, w, hh)

\* footer_actual_rect / actual_footer_rect
FooterRect(w, h, fh) == Rect(0, h - fh, w, h)

\* content_rect of header_to_pdf
HeaderContentRect(w, h, hh, resize) ==
    IF resize THEN Rect(0, hh, w, h) ELSE Rect(0, 0, w, h)

\* content_rect of pagenum_to_pdf
PagenumContentRect(w, h, fh, resize) ==
    IF ~resize THEN Rect(0, 0, w, h) ELSE Rect(0, 0, w, h - fh)

\* a content_rect that forgets the footer band
CombinedContentRectNoFooter(w, h, hh, fh, resize) ==
    IF resize THEN Rect(0, hh, w, h) ELSE Rect(0, 0, w, h)

\* content_rect of header_and_pagenum_to_pdf
CombinedContentRect(w, h, hh, fh, resize) ==
    IF resize THEN Rect(0, hh, w, h - fh) ELSE Rect(0, 0, w, h)

\* if(content_rect.height <= 0): only header_and_pagenum_to_pdf checks
CollapseChecked(op) == op = "combined"
Collapsed(content) == RectHeight(content) <= 0

\* show_pdf_page refuses an empty target rectangle (ValueError)
ShowPdfPageRaises(content) == RectIsEmpty(content)

\* isinstance(mask_rect, pymupdf.Rect) and mask_rect.is_valid
MaskAccepted(m) == m.isRect /\ RectIsValid(m.r)

\* the body of `for mask_rect in mask_rect_array`, then apply_redactions
RECURSIVE MaskCalls(_)
MaskCalls(masks) ==
    IF masks = << >> THEN << >>
    ELSE << IF MaskAccepted(Head(masks))
            THEN Ev("add_redact_annot", Head(masks).r, NoText)
            ELSE Ev("log_error", Head(masks).r, NoText) >>
         \o MaskCalls(Tail(masks))

MaskingPageCalls(c, p) ==
    RotationCalls(p) \o MaskCalls(c.cfg.masks)
      \o << Ev("apply_redactions", NoRect, NoText) >>

\* default paddings of the stamping operations
HeaderPadding         == 10
PagenumPadding        == 5
CombinedHeaderPadding == 10
CombinedFooterPadding == 3

\* a page of the output document: how it came to be, the source page it was
\* made for, and the library calls made while that source page was processed
OutPage(kind, src, calls) == [kind |-> kind, src |-> src, calls |-> calls]

\* what processing one source page does: the pages it adds to the output
\* document, and whether a library call raised
PageResult(pages, raises) == [pages |-> pages, raises |-> raises]

\* masking_to_pdf: body of `for page in doc.pages()`
MaskingPage(c, p, i, total) ==
    PageResult(<< OutPage("inplace", i, MaskingPageCalls(c, p)) >>, FALSE)

\* int(x) of a non-negative length x given in 1/GridScale point: whole points
PyInt(x) == x \div GridScale

\* list(range(0, stop, step)) for step > 0
RangeStarts(stop, step) ==
    [k \in 1..(IF stop > 0 THEN (stop + step - 1) \div step ELSE 0) |-> (k - 1) * step]

\* range(0, stop, 0) raises ValueError
RangeRaises(step) == step = 0

\* grid_to_pdf: the rectangles one pass draws, in drawing order (rows from
\* the top, cells from the left); W, H, iv in 1/GridScale point:
\*   for y_start in range(0, int(page_height), int(iv)):
\*     for x_start in range(0, int(page_width), int(iv)):
\*       x1 = min(x_start + iv, page_width); y1 = min(y_start + iv, page_height)
\*       if x1 > x0 and y1 > y0: draw_rect(Rect(x0, y0, x1, y1))
GridCells(W, H, iv) ==
    LET ys   == RangeStarts(PyInt(H), PyInt(iv))
        xs   == RangeStarts(PyInt(W), PyInt(iv))
        nx   == Len(xs)
        cell(k) ==
          LET y0 == ys[((k - 1) \div nx) + 1] * GridScale
              x0 == xs[((k - 1) % nx) + 1] * GridScale
          IN  Rect(x0, y0, Min(x0 + iv, W), Min(y0 + iv, H))
        all  == [k \in 1..(nx * Len(ys)) |-> cell(k)]
    IN  SelectSeq(all, LAMBDA r : r.x1 > r.x0 /\ r.y1 > r.y0)

\* one pass: its draw_rect calls, then shape.finish(width=grid_width*m, ...)
GridPassCalls(W, H, iv, m) ==
    LET cells == GridCells(W, H, iv * m)
    IN  [k \in 1..Len(cells) |-> Ev("draw_rect", cells[k], Text("pass", FALSE, m, 0))]
          \o << Ev("finish", NoRect, Text("pass", FALSE, m, 0)) >>

\* page.rect.width / page.rect.height in 1/GridScale point
PageWidthScaled(p)  == p.w * GridScale + p.wf
PageHeightScaled(p) == p.h * GridScale + p.hf

\* grid_to_pdf: body of `for page_num in range(len(doc))`
\* (rectangles of the grid calls are in 1/GridScale point)
GridPage(c, p, i, total) ==
    LET W    == PageWidthScaled(p)
        H    == PageHeightScaled(p)
        iv   == c.cfg.interval
        head == RotationCalls(p) \o << Ev("new_shape", Rect(0, 0, W, H), NoText) >>
    IN  IF RangeRaises(PyInt(iv))
        THEN PageResult(<< OutPage("inplace", i, head) >>, TRUE)
        ELSE PageResult(
               << OutPage("inplace", i,
                    head \o GridPassCalls(W, H, iv, 1)
                         \o GridPassCalls(W, H, iv, 5)
                         \o GridPassCalls(W, H, iv, 10)
                         \o << Ev("commit", NoRect, NoText) >>) >>,
               FALSE)

\* header_to_pdf: text_insertion_rect
HeaderTextRect(hr, pad) == Rect(hr.x0 + pad, hr.y0 + pad * 2, hr.x1 - pad * 2, hr.y1)

\* default content_border_width: 0.5
ContentBorderWidth == Rat(1, 2)

\* header_to_pdf: actual_shown_rect, the frame drawn around the content
\*   resize_ratio = content_rect.height / original_page.rect.height
HeaderFrameRect(p, content, hh) ==
    LET resize_ratio == RatDiv(Whole(RectHeight(content)), Whole(p.h))
        shown        == RatMul(Whole(p.w), resize_ratio)
    IN  create_rect(RatDiv(RatSub(Whole(RectWidth(content)), shown), Whole(2)),
                    Whole(hh), shown,
                    RatSub(Whole(RectHeight(content)), ContentBorderWidth))

\* header_to_pdf: `if(stamp_only_firstpage): continue` before the insertion
HeaderSkipsText(stampFirst, i) == stampFirst

\* header_to_pdf: body of `for page_idx in range(source_doc.page_count)`
\* (a "draw_border" call carries actual_shown_rect, in exact fractions)
HeaderPage(c, p, i, total) ==
    LET hr      == HeaderRect(p.w, p.h, c.cfg.hh)
        content == HeaderContentRect(p.w, p.h, c.cfg.hh, c.cfg.resize)
        head    == RotationCalls(p)
                     \o << Ev("new_page", Rect(0, 0, p.w, p.h), NoText),
                           Ev("header_rect", hr, NoText),
                           Ev("content_rect", content, NoText) >>
        border  == IF c.cfg.drawBorder /\ c.cfg.resize
                   THEN << Ev("draw_border", HeaderFrameRect(p, content, c.cfg.hh),
                              NoText) >>
                   ELSE << >>
        text    == IF HeaderSkipsText(c.cfg.stampFirst, i) THEN << >>
                   ELSE << Ev("insert_textbox", HeaderTextRect(hr, HeaderPadding),
                              Text("header", FALSE, 0, 0)) >>
    IN  IF ShowPdfPageRaises(content)
        THEN PageResult(<< OutPage("new", i, head) >>, TRUE)
        ELSE PageResult(
               << OutPage("new", i,
                    head \o << Ev("show_pdf_page", content, NoText) >>
                         \o border \o text) >>,
               FALSE)

\* page_number_text of pagenum_to_pdf
PagenumText(i, total, showTotal) ==
    Text("pagenum", FALSE, i, IF showTotal THEN total ELSE 0)

\* inset rectangle of the footer text
FooterTextRect(fr, pad) == Rect(fr.x0 + pad, fr.y0 + pad, fr.x1 - pad, fr.y1 - pad)

\* pagenum_to_pdf: body of `for page_idx in range(total_pages)`
PagenumPage(c, p, i, total) ==
    LET fr      == FooterRect(p.w, p.h, c.cfg.fh)
        content == PagenumContentRect(p.w, p.h, c.cfg.fh, c.cfg.resize)
        head    == RotationCalls(p)
                     \o << Ev("new_page", Rect(0, 0, p.w, p.h), NoText),
                           Ev("footer_rect", fr, NoText),
                           Ev("content_rect", content, NoText) >>
    IN  IF ShowPdfPageRaises(content)
        THEN PageResult(<< OutPage("new", i, head) >>, TRUE)
        ELSE PageResult(
               << OutPage("new", i,
                    head \o << Ev("show_pdf_page", content, NoText),
                               Ev("insert_textbox", FooterTextRect(fr, PagenumPadding),
                                  PagenumText(i, total, c.cfg.showTotal)) >>) >>,
               FALSE)

\* page_number_text of header_and_pagenum_to_pdf (f" {page_idx + 1}")
CombinedPagenumText(i, total, showTotal) ==
    Text("pagenum", TRUE, i, IF showTotal THEN total ELSE 0)

\* header_and_pagenum_to_pdf: header_insertion_rect
CombinedHeaderTextRect(hr, pad) ==
    Rect(hr.x0 + pad, hr.y0 + pad * 3, hr.x1 - pad * 3, hr.y1)

\* a frame that starts at the left edge of the content region
CombinedFrameRectFlushLeft(p, content, hh) ==
    LET resize_ratio == RatDiv(Whole(RectHeight(content)), Whole(p.h))
        shown        == RatMul(Whole(p.w), resize_ratio)
    IN  create_rect(Whole(content.x0), Whole(hh), shown, Whole(RectHeight(content)))

\* header_and_pagenum_to_pdf: actual_shown_rect, the frame drawn around the
\* content
CombinedFrameRect(p, content, hh) ==
    LET resize_ratio == RatDiv(Whole(RectHeight(content)), Whole(p.h))
        shown        == RatMul(Whole(p.w), resize_ratio)
    IN  create_rect(RatDiv(RatSub(Whole(RectWidth(content)), shown), Whole(2)),
                    Whole(hh), shown, Whole(RectHeight(content)))

\* header_and_pagenum_to_pdf: `if(stamp_only_firstpage and page_idx > 0): continue`
CombinedSkipsText(stampFirst, i) == stampFirst /\ i > 1

\* header_and_pagenum_to_pdf: the pages the collapse branch leaves behind:
\* the page new_page() already appended, then the copy insert_pdf() appends
CollapsePages(i, head) ==
    << OutPage("new", i, head),
       OutPage("copy", i, << Ev("insert_pdf", NoRect, NoText) >>) >>

\* header_and_pagenum_to_pdf: body of `for page_idx in range(total_pages)`
CombinedPage(c, p, i, total) ==
    LET hr      == HeaderRect(p.w, p.h, c.cfg.hh)
        fr      == FooterRect(p.w, p.h, c.cfg.fh)
        content == CombinedContentRect(p.w, p.h, c.cfg.hh, c.cfg.fh, c.cfg.resize)
        head    == RotationCalls(p)
                     \o << Ev("new_page", Rect(0, 0, p.w, p.h), NoText),
                           Ev("header_rect", hr, NoText),
                           Ev("footer_rect", fr, NoText),
                           Ev("content_rect", content, NoText) >>
        pagenum == IF c.cfg.writePagenum
                   THEN << Ev("insert_textbox",
                              FooterTextRect(fr, CombinedFooterPadding),
                              CombinedPagenumText(i, total, c.cfg.showTotal)) >>
                   ELSE << >>
        border  == IF c.cfg.drawBorder /\ c.cfg.resize
                   THEN << Ev("draw_border", CombinedFrameRect(p, content, c.cfg.hh),
                              NoText) >>
                   ELSE << >>
        text    == IF CombinedSkipsText(c.cfg.stampFirst, i) THEN << >>
                   ELSE << Ev("insert_textbox",
                              CombinedHeaderTextRect(hr, CombinedHeaderPadding),
                              Text("header", FALSE, 0, 0)) >>
    IN  IF CollapseChecked(c.op) /\ Collapsed(content)
        THEN PageResult(CollapsePages(i, head), FALSE)
        ELSE IF ShowPdfPageRaises(content)
        THEN PageResult(<< OutPage("new", i, head) >>, TRUE)
        ELSE PageResult(
               << OutPage("new", i,
                    head \o << Ev("show_pdf_page", content, NoText) >>
                         \o pagenum \o border \o text) >>,
               FALSE)

\* the loop body of the running operation
PageBody(c, p, i, total) ==
    CASE c.op = "masking"  -> MaskingPage(c, p, i, total)
      [] c.op = "grid"     -> GridPage(c, p, i, total)
      [] c.op = "header"   -> HeaderPage(c, p, i, total)
      [] c.op = "pagenum"  -> PagenumPage(c, p, i, total)
      [] c.op = "combined" -> CombinedPage(c, p, i, total)

-----------------------------------------------------------------------------
(* Document sessions *)

Handles == {"src", "out", "tmp"}

NoHandles == [h \in Handles |-> "unbound"]

\* the observation log of one call
NoEvents ==
    [fatal |-> FALSE, error |-> FALSE, opened |-> 0, closed |-> 0,
     badClose |-> 0, saved |-> FALSE, escaped |-> FALSE,
     reads |-> {}, inserted |-> << >>,
     openFailed |-> FALSE, errlog |-> "none",
     split |-> "none", splitArgs |-> << >>, headerText |-> << >>]

\* the operations that build a second, new document (output_doc = pymupdf.open())
BuildsOutputDoc(op) == op \in {"header", "pagenum", "combined"}

\* the documents the try body closes itself after a successful save
ClosedAfterSave(op) ==
    CASE op \in {"masking", "grid"}   -> {}
      [] op \in {"header", "pagenum"} -> {"out"}
      [] op = "combined"              -> {"out", "src"}
      [] op = "concat"                -> {"out"}

\* the local variables the finally block looks at
FinallyHandles(op) ==
    CASE op \in {"masking", "grid"} -> {"src"}
      [] op = "concat"              -> {"tmp", "out"}
      [] OTHER                      -> {"src", "out"}

\* the condition the finally block closes under:
\*   'doc' in locals() and not doc.is_closed   (grid_to_pdf: and doc.is_closed)
FinallyCloses(op, st) ==
    IF op = "grid" THEN st = "closed" ELSE st = "open"

\* logging: the severities, the threshold set by logger.setLevel(logging.INFO),
\* and whether a record of a given severity reaches the handler
LevelRank(l) ==
    CASE l = "none" -> 0 [] l = "debug" -> 1 [] l = "info" -> 2
      [] l = "warning" -> 3 [] l = "error" -> 4 [] l = "fatal" -> 5
LoggerLevel == "info"
Emitted(l) == l # "none" /\ LevelRank(l) >= LevelRank(LoggerLevel)

\* the call the except clause reports the failure with:
\* logger.error, but logger.debug in grid_to_pdf
ExceptLogLevel(op) == IF op = "grid" THEN "debug" ELSE "error"

\* an except clause that lets the failure through
ExceptRethrows(op) == FALSE

\* `except Exception as e:` of every operation catches what the try body raises
ExceptSwallows(op) == TRUE

\* Document.close(): an open document becomes closed; closing a closed
\* document raises
CloseAll(h, hs) == [x \in Handles |-> IF x \in hs /\ h[x] = "open" THEN "closed" ELSE h[x]]
NumOpen(h, hs)    == Cardinality({x \in hs : h[x] = "open"})
NumNotOpen(h, hs) == Cardinality({x \in hs : h[x] # "open"})

-----------------------------------------------------------------------------
(* Initial state *)

\* an output file that may exist before the call
PreOut == { Path("out", <<1>>, "pdf") }

Init ==
    /\ \E pre \in SUBSET PreOut :
         fs = [p \in Paths |->
                 IF p \in InFiles \cup {NotesFile, BlankFile} \cup pre
                 THEN Orig ELSE Absent]
    /\ dirs = {"in", "out"}
    /\ pc = "idle"
    /\ call = NoCall
    /\ srcPages = << >>
    /\ outPages = << >>
    /\ pageIdx = 0
    /\ hnd = NoHandles
    /\ ev = NoEvents
    /\ bpc = "idle"
    /\ bcall = [op |-> "none"]
    /\ queue = << >>
    /\ invoked = << >>

-----------------------------------------------------------------------------
(* The single-document operations, step by step *)

batchVars == <<bcall, queue, invoked>>

DirectIn  == { Path("in", <<1>>, "pdf"), GoneFile, BlankFile }
DirectOut == { Path("in", <<1>>, "pdf"), Path("out", <<1>>, "pdf") }

\* entry into a single-document operation
Enter(c) ==
    /\ call' = c
    /\ pc' = "guard"
    /\ srcPages' = << >>
    /\ outPages' = << >>
    /\ pageIdx' = 0
    /\ hnd' = NoHandles
    /\ ev' = NoEvents

\* a caller invokes one single-document operation
Invoke ==
    /\ pc = "idle" /\ bpc = "idle"
    /\ \E op \in Ops, inp \in DirectIn, out \in DirectOut, ow \in BOOLEAN :
         \E cfg \in ConfigsOf(op) : Enter(Call(op, inp, out, ow, cfg))
    /\ bpc' = "direct"
    /\ UNCHANGED <<fs, dirs, batchVars>>

\* header_and_frame_to_pdf: forwards to header_and_pagenum_to_pdf with
\* write_pagenum=False, draw_content_border=True and the default resize_original
InvokeFrame ==
    /\ pc = "idle" /\ bpc = "idle"
    /\ \E inp \in DirectIn, out \in DirectOut, ow \in BOOLEAN,
          hh \in HeaderHeights, fh \in FooterHeights, sf \in BOOLEAN :
         Enter(Call("combined", inp, out, ow,
                    Config(TRUE, hh, fh, <<>>, FALSE, FALSE, sf, TRUE)))
    /\ bpc' = "direct"
    /\ UNCHANGED <<fs, dirs, batchVars>>

\* the three guards at the head of the try block
Guards ==
    /\ pc = "guard" /\ call.op \in Ops
    /\ ev' = [ev EXCEPT !.fatal = GuardLogsFatal(call)]
    /\ pc' = IF GuardReturns(call) THEN "finally" ELSE "open"
    /\ UNCHANGED <<fs, dirs, call, srcPages, outPages, pageIdx, hnd, bpc, batchVars>>

\* split_by_delimiter raises before any document is opened
SplitFails ==
    /\ pc = "open" /\ call.op \in Ops
    /\ HeaderTextRaises(call)
    /\ ev' = AfterHeaderText(ev, call)
    /\ pc' = "except"
    /\ UNCHANGED <<fs, dirs, call, srcPages, outPages, pageIdx, hnd, bpc, batchVars>>

\* pymupdf.open(input_pdf_path) fails: nothing is bound
OpenFails ==
    /\ pc = "open" /\ call.op \in Ops
    /\ ~HeaderTextRaises(call)
    /\ ev' = [AfterHeaderText(ev, call) EXCEPT !.openFailed = TRUE]
    /\ pc' = "except"
    /\ UNCHANGED <<fs, dirs, call, srcPages, outPages, pageIdx, hnd, bpc, batchVars>>

\* pymupdf.open(input_pdf_path) succeeds (and output_doc = pymupdf.open())
OpenDocs ==
    /\ pc = "open" /\ call.op \in Ops
    /\ ~HeaderTextRaises(call)
    /\ \E d \in Docs : srcPages' = d
    /\ hnd' = [hnd EXCEPT !["src"] = "open",
                          !["out"] = IF BuildsOutputDoc(call.op) THEN "open" ELSE @]
    /\ ev' = [AfterHeaderText(ev, call)
                 EXCEPT !.opened = IF BuildsOutputDoc(call.op) THEN 2 ELSE 1,
                        !.reads = {call.inp}]
    /\ pageIdx' = 1
    /\ pc' = "page"
    /\ UNCHANGED <<fs, dirs, call, outPages, bpc, batchVars>>

\* one iteration of the page loop
ProcessPage ==
    /\ pc = "page" /\ pageIdx <= Len(srcPages)
    /\ LET res == PageBody(call, srcPages[pageIdx], pageIdx, Len(srcPages))
       IN  /\ outPages' = outPages \o res.pages
           /\ pc' = IF res.raises THEN "except" ELSE "page"
    /\ srcPages' = [srcPages EXCEPT ![pageIdx] = Unrotated(@)]
    /\ pageIdx' = pageIdx + 1
    /\ UNCHANGED <<fs, dirs, call, hnd, ev, bpc, batchVars>>

\* a drawing call of the library raises while a page is processed
PageFails ==
    /\ pc = "page" /\ pageIdx <= Len(srcPages)
    /\ pc' = "except"
    /\ UNCHANGED <<fs, dirs, call, srcPages, outPages, pageIdx, hnd, ev, bpc, batchVars>>

\* doc.save(output_pdf_path, ...) and the closes that follow it in the try block
Save ==
    /\ pc = "page" /\ pageIdx > Len(srcPages)
    /\ fs' = [fs EXCEPT ![call.out] = Written(call.op)]
    /\ hnd' = CloseAll(hnd, ClosedAfterSave(call.op))
    /\ ev' = [ev EXCEPT !.saved = TRUE,
                        !.closed = @ + NumOpen(hnd, ClosedAfterSave(call.op))]
    /\ pc' = "finally"
    /\ UNCHANGED <<dirs, call, srcPages, outPages, pageIdx, bpc, batchVars>>

\* save raises: nothing is written
SaveFails ==
    /\ pc = "page" /\ pageIdx > Len(srcPages)
    /\ pc' = "except"
    /\ UNCHANGED <<fs, dirs, call, srcPages, outPages, pageIdx, hnd, ev, bpc, batchVars>>

\* except Exception as e: the failure is logged and swallowed
Except ==
    /\ pc = "except"
    /\ ev' = [ev EXCEPT !.error = TRUE, !.escaped = ~ExceptSwallows(call.op),
                        !.errlog = ExceptLogLevel(call.op)]
    /\ pc' = "finally"
    /\ UNCHANGED <<fs, dirs, call, srcPages, outPages, pageIdx, hnd, bpc, batchVars>>

\* the finally block
Finally ==
    /\ pc = "finally"
    /\ LET hs     == FinallyHandles(call.op)
           picked == { h \in hs : hnd[h] # "unbound" /\ FinallyCloses(call.op, hnd[h]) }
       IN  /\ hnd' = CloseAll(hnd, picked)
           /\ ev' = [ev EXCEPT !.closed = @ + NumOpen(hnd, picked),
                               !.badClose = @ + NumNotOpen(hnd, picked),
                               !.escaped = @ \/ NumNotOpen(hnd, picked) > 0]
    /\ pc' = "return"
    /\ UNCHANGED <<fs, dirs, call, srcPages, outPages, pageIdx, bpc, batchVars>>

\* the operation returns to its caller
Return ==
    /\ pc = "return" /\ bpc = "direct"
    /\ pc' = "done"
    /\ UNCHANGED <<fs, dirs, call, srcPages, outPages, pageIdx, hnd, ev, bpc, batchVars>>

-----------------------------------------------------------------------------
(* Directory listing and ordering *)

\* glob.glob(input_folder_abspath + "/*.pdf"): the existing .pdf files
PdfFilesIn(d) == { p \in Paths : p.dir = d /\ p.ext = "pdf" /\ Exists(p) }

\* the number a stem's digits spell
RECURSIVE StemValue(_)
StemValue(s) ==
    IF s = << >> THEN 0 ELSE 10 * StemValue(SubSeq(s, 1, Len(s) - 1)) + s[Len(s)]

\* character-by-character (lexicographic) order of two stems
RECURSIVE LexLess(_, _)
LexLess(a, b) ==
    IF a = << >> THEN b # << >>
    ELSE IF b = << >> THEN FALSE
    ELSE IF Head(a) # Head(b) THEN Head(a) < Head(b)
    ELSE LexLess(Tail(a), Tail(b))

\* every order in which a set of files can be listed
Orderings(S) ==
    { q \in [1..Cardinality(S) -> S] : \A i, j \in DOMAIN q : i # j => q[i] # q[j] }

\* natsort.natsorted: digit runs compare by value
IsNatSorted(q) == \A i, j \in DOMAIN q : i < j => StemValue(q[i].stem) <= StemValue(q[j].stem)

\* a plain sort of the path strings: character by character
LexSorted(S) ==
    CHOOSE q \in Orderings(S) :
      \A i, j \in DOMAIN q : i < j => LexLess(q[i].stem, q[j].stem)

NatSorted(S) == CHOOSE q \in Orderings(S) : IsNatSorted(q)

\* the order glob.glob returns the files in: the directory's own, any order
GlobOrders(S) == Orderings(S)

-----------------------------------------------------------------------------
(* concat_pdf *)

ConcatOut == { MergedOut, Path("in", <<1>>, "pdf"), Path("out", <<1>>, "pdf") }

ConcatCall(indir, out, overwrite) ==
    [op |-> "concat", inp |-> GoneFile, indir |-> indir, out |-> out,
     overwrite |-> overwrite,
     cfg |-> Config(FALSE, 0, 0, <<>>, FALSE, FALSE, FALSE, FALSE),
     outPre |-> fs[out]]

ConcatInvoke ==
    /\ pc = "idle" /\ bpc = "idle"
    /\ \E d \in {"in", "gone"}, out \in ConcatOut, ow \in BOOLEAN :
         Enter(ConcatCall(d, out, ow))
    /\ bpc' = "direct"
    /\ UNCHANGED <<fs, dirs, batchVars>>

\* if(not os.path.exists(input_folder_path)): fatal, return (before the try)
ConcatGuardReturns(c) == ~DirExists(c.indir)

\* the two guards of concat_pdf; the second one only logs
ConcatGuards ==
    /\ pc = "guard" /\ call.op = "concat"
    /\ ev' = [ev EXCEPT !.fatal = ConcatGuardReturns(call) \/ GuardOutputExists(call)]
    /\ pc' = IF ConcatGuardReturns(call) THEN "return" ELSE "open"
    /\ UNCHANGED <<fs, dirs, call, srcPages, outPages, pageIdx, hnd, bpc, batchVars>>

\* output_doc = pymupdf.open(); the glob; natsort.natsorted
ConcatOpen ==
    /\ pc = "open" /\ call.op = "concat"
    /\ hnd' = [hnd EXCEPT !["out"] = "open"]
    /\ ev' = [ev EXCEPT !.opened = 1]
    /\ queue' = NatSorted(PdfFilesIn(call.indir))
    /\ pc' = "cloop"
    /\ UNCHANGED <<fs, dirs, call, srcPages, outPages, pageIdx, bpc, bcall, invoked>>

\* a page insert_file appends to the output: page i of file f
ConcatPage(f, i) == [kind |-> "copy", src |-> i, calls |-> << >>, file |-> f]

\* one iteration: tmp_doc = open(f); output_doc.insert_file(tmp_doc); tmp_doc.close()
ConcatFile ==
    /\ pc = "cloop" /\ queue # << >>
    /\ \E d \in Docs :
         /\ outPages' = outPages \o [i \in 1..Len(d) |-> ConcatPage(Head(queue), i)]
         /\ ev' = [ev EXCEPT !.opened = @ + 1, !.closed = @ + 1,
                             !.reads = @ \cup {Head(queue)},
                             !.inserted = Append(@, [file |-> Head(queue), n |-> Len(d)])]
    /\ hnd' = [hnd EXCEPT !["tmp"] = "closed"]
    /\ queue' = Tail(queue)
    /\ UNCHANGED <<fs, dirs, pc, call, srcPages, pageIdx, bpc, bcall, invoked>>

\* pymupdf.open(pdf_in_file) raises: tmp_doc keeps its previous binding
ConcatOpenFails ==
    /\ pc = "cloop" /\ queue # << >>
    /\ ev' = [ev EXCEPT !.openFailed = TRUE]
    /\ pc' = "except"
    /\ UNCHANGED <<fs, dirs, call, srcPages, outPages, pageIdx, hnd, bpc, batchVars>>

\* insert_file raises: tmp_doc is bound and still open
ConcatInsertFails ==
    /\ pc = "cloop" /\ queue # << >>
    /\ hnd' = [hnd EXCEPT !["tmp"] = "open"]
    /\ ev' = [ev EXCEPT !.opened = @ + 1, !.reads = @ \cup {Head(queue)}]
    /\ pc' = "except"
    /\ UNCHANGED <<fs, dirs, call, srcPages, outPages, pageIdx, bpc, batchVars>>

\* a save inside the loop, after each inserted document
ConcatSaveEarly ==
    /\ pc = "cloop" /\ outPages # << >>
    /\ fs' = [fs EXCEPT ![call.out] = Written(call.op)]
    /\ hnd' = CloseAll(hnd, ClosedAfterSave(call.op))
    /\ ev' = [ev EXCEPT !.saved = TRUE,
                        !.closed = @ + NumOpen(hnd, ClosedAfterSave(call.op))]
    /\ pc' = "finally"
    /\ UNCHANGED <<dirs, call, srcPages, outPages, pageIdx, bpc, batchVars>>

\* output_doc.save(output_pdf_path); output_doc.close()
\* (a document without pages cannot be saved: save raises)
ConcatSave ==
    /\ pc = "cloop" /\ queue = << >> /\ outPages # << >>
    /\ fs' = [fs EXCEPT ![call.out] = Written(call.op)]
    /\ hnd' = CloseAll(hnd, ClosedAfterSave(call.op))
    /\ ev' = [ev EXCEPT !.saved = TRUE,
                        !.closed = @ + NumOpen(hnd, ClosedAfterSave(call.op))]
    /\ pc' = "finally"
    /\ UNCHANGED <<dirs, call, srcPages, outPages, pageIdx, bpc, batchVars>>

ConcatSaveFails ==
    /\ pc = "cloop" /\ queue = << >>
    /\ pc' = "except"
    /\ UNCHANGED <<fs, dirs, call, srcPages, outPages, pageIdx, hnd, ev, bpc, batchVars>>

-----------------------------------------------------------------------------
(* The folder operations *)

FolderOps == {"masking_in_folder", "header_in_folder",
              "combined_in_folder", "frame_in_folder"}

\* the single-document operation a folder operation forwards to
ForwardsTo(fop) ==
    CASE fop = "masking_in_folder"  -> "masking"
      [] fop = "header_in_folder"   -> "header"
      [] fop = "combined_in_folder" -> "combined"
      [] fop = "frame_in_folder"    -> "combined"

\* the overwrite flag that reaches the single-document operation:
\* header_to_pdf_in_folder has no such parameter, header_to_pdf defaults to True
ForwardedOverwrite(fop, overwrite) ==
    IF fop = "header_in_folder" THEN TRUE ELSE overwrite

\* the configurations the folder operations are called with
FolderConfigsOf(fop) ==
    CASE fop = "masking_in_folder" ->
           { Config(FALSE, 0, 0, << m >>, FALSE, FALSE, FALSE, FALSE) : m \in MaskKinds }
      [] fop = "header_in_folder" ->
           { Config(r, 150, 0, <<>>, FALSE, FALSE, FALSE, FALSE) : r \in BOOLEAN }
      [] fop = "combined_in_folder" ->
           { Config(TRUE, 70, fh, <<>>, TRUE, FALSE, FALSE, TRUE) : fh \in FooterHeights }
      [] fop = "frame_in_folder" ->
           { Config(TRUE, hh, 30, <<>>, FALSE, FALSE, FALSE, TRUE) : hh \in HeaderHeights }

FolderCall(fop, indir, outdir, overwrite, cfg) ==
    [op |-> fop, indir |-> indir, outdir |-> outdir, overwrite |-> overwrite,
     cfg |-> cfg, dirsPre |-> dirs, fsPre |-> fs, listed |-> << >>]

FolderInvoke ==
    /\ pc = "idle" /\ bpc = "idle"
    /\ \E fop \in FolderOps, indir \in {"in", "gone"},
          outdir \in {"in", "out", "fresh"}, ow \in BOOLEAN :
         \E cfg \in FolderConfigsOf(fop) :
           bcall' = FolderCall(fop, indir, outdir, ow, cfg)
    /\ bpc' = "guard"
    /\ UNCHANGED <<fs, dirs, pc, call, srcPages, outPages, pageIdx, hnd, ev,
                   queue, invoked>>

\* if(input_folder_path == output_folder_path): fatal, return
FolderGuardSameDir(b) == b.indir = b.outdir

\* if(not os.path.exists(input_folder_path)): fatal, return
FolderGuardMissingDir(b) == ~DirExists(b.indir)

\* a guard sequence without the existence check
FolderGuardOnlySameDir(b) == FolderGuardSameDir(b)

FolderGuardReturns(b) == FolderGuardSameDir(b) \/ FolderGuardMissingDir(b)

FolderGuards ==
    /\ bpc = "guard"
    /\ bpc' = IF FolderGuardReturns(bcall) THEN "done" ELSE "mkdir"
    /\ UNCHANGED <<fs, dirs, pc, call, srcPages, outPages, pageIdx, hnd, ev, batchVars>>

\* if not os.path.exists(output_folder_abspath): os.makedirs(...)
FolderMakedirs ==
    /\ bpc = "mkdir"
    /\ dirs' = dirs \cup {bcall.outdir}
    /\ bpc' = "glob"
    /\ UNCHANGED <<fs, pc, call, srcPages, outPages, pageIdx, hnd, ev, batchVars>>

\* the order the loop visits the files in: the glob's, as it comes
FolderOrders(S) == GlobOrders(S)

\* for pdf_in_file in glob.glob(input_folder_abspath + "/*.pdf")
FolderGlob ==
    /\ bpc = "glob"
    /\ \E q \in FolderOrders(PdfFilesIn(bcall.indir)) :
         /\ queue' = q
         /\ bcall' = [bcall EXCEPT !.listed = q]
    /\ bpc' = "loop"
    /\ UNCHANGED <<fs, dirs, pc, call, srcPages, outPages, pageIdx, hnd, ev, invoked>>

\* the loop body: the call of the single-document operation on the next file
FolderStep ==
    /\ bpc = "loop" /\ pc = "idle" /\ queue # << >>
    /\ LET f   == Head(queue)
           out == OutPathFor(bcall.outdir, f)
       IN  /\ Enter(Call(ForwardsTo(bcall.op), f, out,
                         ForwardedOverwrite(bcall.op, bcall.overwrite), bcall.cfg))
           /\ invoked' = Append(invoked, [inp |-> f, out |-> out, outcome |-> "running"])
    /\ queue' = Tail(queue)
    /\ UNCHANGED <<fs, dirs, bpc, bcall>>

\* an exception of the single-document operation that is not swallowed
\* leaves the loop
Propagates(e) == e.escaped

\* what the log shows of a finished call
Outcome(e) ==
    IF e.error THEN "error" ELSE IF e.saved THEN "saved" ELSE "refused"

\* the single-document operation returns into the loop; its locals are gone
FolderReturn ==
    /\ bpc = "loop" /\ pc = "return"
    /\ bpc' = IF Propagates(ev) THEN "raised" ELSE "loop"
    /\ pc' = "idle"
    /\ call' = NoCall
    /\ srcPages' = << >>
    /\ outPages' = << >>
    /\ pageIdx' = 0
    /\ hnd' = NoHandles
    /\ ev' = NoEvents
    /\ invoked' = [invoked EXCEPT ![Len(invoked)].outcome = Outcome(ev)]
    /\ UNCHANGED <<fs, dirs, bcall, queue>>

\* the loop is exhausted: the folder operation returns
FolderDone ==
    /\ bpc = "loop" /\ pc = "idle" /\ queue = << >>
    /\ bpc' = "done"
    /\ UNCHANGED <<fs, dirs, pc, call, srcPages, outPages, pageIdx, hnd, ev, batchVars>>

Next ==
    \/ Invoke \/ InvokeFrame \/ Guards \/ SplitFails \/ OpenFails \/ OpenDocs
    \/ ProcessPage \/ PageFails \/ Save \/ SaveFails \/ Except \/ Finally \/ Return
    \/ ConcatInvoke \/ ConcatGuards \/ ConcatOpen \/ ConcatFile \/ ConcatOpenFails
    \/ ConcatInsertFails \/ ConcatSave \/ ConcatSaveFails

Spec == Init /\ [][Next]_vars

NextFolder ==
    \/ FolderInvoke \/ FolderGuards \/ FolderMakedirs \/ FolderGlob \/ FolderStep
    \/ FolderReturn \/ FolderDone
    \/ Guards \/ OpenFails \/ OpenDocs \/ ProcessPage \/ PageFails
    \/ Save \/ SaveFails \/ Except \/ Finally

SpecFolder == Init /\ [][NextFolder]_vars

-----------------------------------------------------------------------------
(* grid_to_pdf on small pages of any size *)

\* the largest page side tried, in whole points
MaxGridSide == 6

\* page sizes from 1 point up, in steps of 1/GridScale point, unrotated
GridPages ==
    { FracPage(w, wf, h, hf, 0) :
        w \in 1..MaxGridSide, wf \in 0..(GridScale - 1),
        h \in {1, 2},         hf \in 0..(GridScale - 1) }

\* grid_interval in 1/GridScale point (half points: 0.5, 1.0, 1.5, 2.0, 3.5)
SmallGridIntervals == { 1, 2, 3, 4, 7 }

\* grid_to_pdf has opened a one-page document and enters its page loop
InitGrid ==
    /\ fs = [p \in Paths |-> IF p \in InFiles \cup {NotesFile} THEN Orig ELSE Absent]
    /\ dirs = {"in", "out"}
    /\ \E iv \in SmallGridIntervals :
         call = Call("grid", Path("in", <<1>>, "pdf"), Path("out", <<1>>, "pdf"),
                     TRUE, GridConfig(iv))
    /\ \E p \in GridPages : srcPages = << p >>
    /\ outPages = << >>
    /\ pageIdx = 1
    /\ pc = "page"
    /\ hnd = [NoHandles EXCEPT !["src"] = "open"]
    /\ ev = [NoEvents EXCEPT !.opened = 1, !.reads = {Path("in", <<1>>, "pdf")}]
    /\ bpc = "direct"
    /\ bcall = [op |-> "none"]
    /\ queue = << >>
    /\ invoked = << >>

NextGrid == ProcessPage \/ Save \/ Except \/ Finally \/ Return

SpecGrid == InitGrid /\ [][NextGrid]_vars

-----------------------------------------------------------------------------
(* split_by_delimiter called on texts of any shape *)

\* the longest text tried
MaxTextLen == 3

TextChars == {CharLetterA, CharSpace, CharColon, CharWideSpace}

Texts == UNION { [1..n -> TextChars] : n \in 0..MaxTextLen }

\* a caller evaluates split_by_delimiter(text, delimiter)
SplitCall ==
    /\ pc = "idle" /\ bpc = "idle"
    /\ \E text \in Texts, d \in Delimiters :
         ev' = AfterSplit(NoEvents, text, d)
    /\ call' = [NoCall EXCEPT !.op = "split"]
    /\ pc' = "done"
    /\ bpc' = "direct"
    /\ UNCHANGED <<fs, dirs, srcPages, outPages, pageIdx, hnd, batchVars>>

NextSplit == SplitCall

SpecSplit == Init /\ [][NextSplit]_vars

-----------------------------------------------------------------------------
(* Properties *)

Finished == pc \in {"return", "done"}

\* the output pages made for source page i
PagesFor(i) == { k \in DOMAIN outPages : outPages[k].src = i }

\* the calls named f among the calls of an output page, in order
CallsNamed(pg, f) == SelectSeq(pg.calls, LAMBDA e : e.f = f)

\* C1: when the output file exists and overwrite is False, the operation
\* aborts before any write: the existing output file is left as it was and
\* no document is opened or saved.
C1_OverwriteGuardAborts ==
    (call.op # "none" /\ ~call.overwrite /\ call.outPre # Absent)
      => /\ fs[call.out] = call.outPre
         /\ ev.opened = 0
         /\ ~ev.saved

\* C2: when an operation has returned, on every exit path, every document
\* session that was opened has been closed exactly once, and no close was
\* attempted on a session that was not open.
C2_EveryOpenClosedOnce ==
    Finished
      => /\ \A h \in Handles : hnd[h] # "open"
         /\ ev.closed = ev.opened
         /\ ev.badClose = 0

\* C3: in header_and_pagenum_to_pdf the output document holds exactly one
\* page per processed source page, in source order, and the page of a
\* collapsed content region is the verbatim copy of the source page.
C3_CollapseCopiesOnePage ==
    (call.op = "combined" /\ pc = "page")
      => /\ Len(outPages) = pageIdx - 1
         /\ \A k \in DOMAIN outPages :
              /\ outPages[k].src = k
              /\ LET p == srcPages[k]
                 IN  (call.cfg.resize /\ p.h - call.cfg.fh - call.cfg.hh <= 0)
                       => outPages[k].kind = "copy"

\* the content region of source page i of header_to_pdf / pagenum_to_pdf
\* has no height left when the original is resized
BandCollapses(i) ==
    /\ call.cfg.resize
    /\ \/ call.op = "header"  /\ call.cfg.hh >= srcPages[i].h
       \/ call.op = "pagenum" /\ call.cfg.fh >= srcPages[i].h

\* C4: in header_to_pdf and pagenum_to_pdf with resize_original=True a page
\* whose band is at least as high as the page is copied verbatim, no failure
\* is raised for it, and the operation goes on to the remaining pages.
C4_CollapseRecoverablePerPage ==
    (call.op \in {"header", "pagenum"} /\ pc \in {"page", "except"})
      => \A i \in 1..(pageIdx - 1) :
           BandCollapses(i)
             => /\ pc = "page"
                /\ \E k \in PagesFor(i) : outPages[k].kind = "copy"

\* C5: the path written as output is never one of the files the operation
\* read as input, and when the input path equals the output path nothing is
\* opened or written.
C5_NoInPlaceMutation ==
    /\ ev.saved => call.out \notin ev.reads
    /\ (call.op \in Ops /\ call.inp = call.out) => (ev.opened = 0 /\ ~ev.saved)

\* the .pdf files the input directory held when the folder operation began
PdfFilesBefore ==
    { p \in Paths : p.dir = bcall.indir /\ p.ext = "pdf" /\ bcall.fsPre[p] # Absent }

FolderGuardFails ==
    bcall.indir \notin bcall.dirsPre \/ bcall.indir = bcall.outdir

\* C6: in every folder operation, when the input directory does not exist
\* or equals the output directory, nothing is enumerated, no directory is
\* created, no file is written and no single-document operation is invoked.
C6_FolderGuardBeforeEnumeration ==
    (bcall.op # "none" /\ FolderGuardFails)
      => /\ dirs = bcall.dirsPre
         /\ fs = bcall.fsPre
         /\ bcall.listed = << >>
         /\ invoked = << >>
         /\ pc = "idle"

C6_Witness ==
    /\ bcall.op # "none"
    /\ bpc = "done"
    /\ bcall.indir = "gone"
    /\ bcall.outdir = "fresh"

\* C7: every folder operation invokes the single-document operation on the
\* files of the input directory in natural (numeric-aware) order.
C7_FolderNaturalOrder ==
    \A i, j \in DOMAIN invoked :
      i < j => StemValue(invoked[i].inp.stem) < StemValue(invoked[j].inp.stem)

\* C8: in every folder operation no exception escapes, and the
\* single-document operation is invoked exactly once for each .pdf file of
\* the input directory, with output path outputDir/basename(input), whatever
\* the outcome of the files before it.
C8_BatchIsolatesFailures ==
    /\ bpc # "raised"
    /\ (bcall.op # "none" /\ ~FolderGuardFails)
         => /\ \A i \in DOMAIN invoked :
                 /\ invoked[i].inp \in PdfFilesBefore
                 /\ invoked[i].out =
                      [dir |-> bcall.outdir, stem |-> invoked[i].inp.stem, ext |-> "pdf"]
            /\ \A i, j \in DOMAIN invoked : i # j => invoked[i].inp # invoked[j].inp
            /\ bpc = "done"
                 => { invoked[i].inp : i \in DOMAIN invoked } = PdfFilesBefore

C8_Witness ==
    /\ bpc = "done"
    /\ Len(invoked) = 3
    /\ invoked[1].outcome = "error"
    /\ invoked[3].outcome = "saved"

\* the bands an operation has: header_to_pdf has no footer, pagenum_to_pdf
\* no header
BandHeader == IF call.op = "pagenum" THEN 0 ELSE call.cfg.hh
BandFooter == IF call.op = "header" THEN 0 ELSE call.cfg.fh

\* C9: for every page of size (width, height) and every configuration,
\* header = (0, 0, width, headerHeight),
\* footer = (0, height - footerHeight, width, height), and
\* content = (0, headerHeight, width, height - footerHeight) when the original
\* is resized, else (0, 0, width, height); an absent band has height 0; the
\* content is embedded into exactly that content region.
C9_RegionFormulas ==
    call.op \in {"header", "pagenum", "combined"}
      => \A k \in DOMAIN outPages :
           LET pg == outPages[k]
               w  == srcPages[pg.src].w
               h  == srcPages[pg.src].h
               content ==
                 IF call.cfg.resize
                 THEN [x0 |-> 0, y0 |-> BandHeader, x1 |-> w, y1 |-> h - BandFooter]
                 ELSE [x0 |-> 0, y0 |-> 0, x1 |-> w, y1 |-> h]
           IN  /\ pg.kind = "new" => Len(CallsNamed(pg, "content_rect")) = 1
               /\ \A n \in DOMAIN pg.calls :
                    LET e == pg.calls[n]
                    IN  /\ e.f = "header_rect"
                             => e.r = [x0 |-> 0, y0 |-> 0, x1 |-> w, y1 |-> call.cfg.hh]
                        /\ e.f = "footer_rect"
                             => e.r = [x0 |-> 0, y0 |-> h - call.cfg.fh, x1 |-> w, y1 |-> h]
                        /\ e.f \in {"content_rect", "show_pdf_page"} => e.r = content

\* the 200x300 page with headerHeight=70, footerHeight=30, resizeOriginal
\* set: content = (0, 70, 200, 270) has been embedded
C9_Witness ==
    /\ call.op = "combined" /\ call.cfg.resize
    /\ call.cfg.hh = 70 /\ call.cfg.fh = 30
    /\ \E k \in DOMAIN outPages :
         /\ srcPages[outPages[k].src].w = 200
         /\ srcPages[outPages[k].src].h = 300
         /\ \E n \in DOMAIN outPages[k].calls :
              /\ outPages[k].calls[n].f = "show_pdf_page"
              /\ outPages[k].calls[n].r = [x0 |-> 0, y0 |-> 70, x1 |-> 200, y1 |-> 270]

\* a proper rectangle: x1 > x0 and y1 > y0
ProperMask(m) == m.isRect /\ m.r.x1 > m.r.x0 /\ m.r.y1 > m.r.y0

\* C10: in masking_to_pdf, on every page, the masks registered as
\* redactions are exactly the proper rectangles of the list, in order; every
\* other mask is logged and skipped; the redactions are committed once per
\* page, after all masks were examined.
C10_OnlyProperMasksRegistered ==
    call.op = "masking"
      => \A k \in DOMAIN outPages :
           LET pg   == outPages[k]
               reg  == CallsNamed(pg, "add_redact_annot")
               want == SelectSeq(call.cfg.masks, ProperMask)
           IN  /\ Len(reg) = Len(want)
               /\ \A n \in DOMAIN reg : reg[n].r = want[n].r
               /\ Len(CallsNamed(pg, "log_error")) = Len(call.cfg.masks) - Len(want)
               /\ Len(CallsNamed(pg, "apply_redactions")) = 1
               /\ pg.calls[Len(pg.calls)].f = "apply_redactions"

\* C11: when the source document cannot be opened, the operation returns
\* to its caller without an exception, the failure has been logged (a record
\* that passes the logger's threshold), and no output file was written.
C11_OpenFailureLoggedNoOutput ==
    (ev.openFailed /\ Finished)
      => /\ ~ev.escaped
         /\ Emitted(ev.errlog)
         /\ ~ev.saved
         /\ fs[call.out] = call.outPre

\* the rectangles pass m drew on an output page of grid_to_pdf
PassCells(pg, m) ==
    { pg.calls[n].r : n \in { k \in DOMAIN pg.calls :
                                pg.calls[k].f = "draw_rect" /\ pg.calls[k].t.num = m } }

\* C12: in grid_to_pdf every boundary coordinate of a cell of the 5I pass
\* is a boundary coordinate of some cell of the I pass on the same axis, and
\* no pass emits a cell of zero width or height.
C12_GridTiersAlign ==
    call.op = "grid"
      => \A k \in DOMAIN outPages :
           LET pg == outPages[k]
               xs == UNION { {r.x0, r.x1} : r \in PassCells(pg, 1) }
               ys == UNION { {r.y0, r.y1} : r \in PassCells(pg, 1) }
           IN  /\ \A r \in PassCells(pg, 5) :
                    /\ r.x0 \in xs /\ r.x1 \in xs
                    /\ r.y0 \in ys /\ r.y1 \in ys
               /\ \A m \in {1, 5, 10} : \A r \in PassCells(pg, m) :
                    r.x1 - r.x0 > 0 /\ r.y1 - r.y0 > 0

\* the cells of a set that cover the square (i, j)-(i + 1, j + 1) of the
\* 1/GridScale-point lattice
Covering(cells, i, j) ==
    { r \in cells : r.x0 <= i /\ i + 1 <= r.x1 /\ r.y0 <= j /\ j + 1 <= r.y1 }

\* C13: in grid_to_pdf each of the three passes tiles the whole page: its
\* cells lie inside the page (0, 0, W, H), do not overlap, and cover it.
C13_GridPassTilesPage ==
    (call.op = "grid" /\ pc = "page")
      => \A k \in DOMAIN outPages :
           LET pg == outPages[k]
               W  == PageWidthScaled(srcPages[pg.src])
               H  == PageHeightScaled(srcPages[pg.src])
           IN  \A m \in {1, 5, 10} :
                 /\ \A r \in PassCells(pg, m) :
                      0 <= r.x0 /\ r.x1 <= W /\ 0 <= r.y0 /\ r.y1 <= H
                 /\ \A i \in 0..(W - 1), j \in 0..(H - 1) :
                      Cardinality(Covering(PassCells(pg, m), i, j)) = 1

\* the positions of the calls named f with multiplier m on an output page
CallsAt(pg, f, m) ==
    { n \in DOMAIN pg.calls : pg.calls[n].f = f /\ pg.calls[n].t.num = m }

\* the cells a pass of interval iv is to draw on a W x H page: one per
\* lattice point (i * iv, j * iv) inside the page, clipped to the page edge
LatticeCells(W, H, iv) ==
    { Rect(i * iv, j * iv, Min((i + 1) * iv, W), Min((j + 1) * iv, H)) :
        i \in { a \in 0..W : a * iv < W }, j \in { b \in 0..H : b * iv < H } }

\* C18: in grid_to_pdf, on every page, the passes run for m = 1, 5, 10 in
\* that order; pass m draws exactly the cells with origins (i*m*I, j*m*I)
\* inside the page, each spanning m*I clipped to the page edge, and finishes
\* them as one layer of stroke width m*w; the shape is committed once, after
\* the third layer.
C18_GridPassesInOrder ==
    (call.op = "grid" /\ pc = "page")
      => \A k \in DOMAIN outPages :
           LET pg  == outPages[k]
               W   == PageWidthScaled(srcPages[pg.src])
               H   == PageHeightScaled(srcPages[pg.src])
               last == Len(pg.calls)
               fin(m) == CHOOSE n \in CallsAt(pg, "finish", m) : TRUE
           IN  /\ \A m \in {1, 5, 10} : Cardinality(CallsAt(pg, "finish", m)) = 1
               /\ fin(1) < fin(5) /\ fin(5) < fin(10)
               /\ { n \in DOMAIN pg.calls : pg.calls[n].f = "commit" } = {last}
               /\ fin(10) = last - 1
               /\ \A n \in CallsAt(pg, "draw_rect", 1)  : n < fin(1)
               /\ \A n \in CallsAt(pg, "draw_rect", 5)  : fin(1) < n /\ n < fin(5)
               /\ \A n \in CallsAt(pg, "draw_rect", 10) : fin(5) < n /\ n < fin(10)
               /\ \A m \in {1, 5, 10} :
                    PassCells(pg, m) = LatticeCells(W, H, m * call.cfg.interval)

\* the .pdf files the input directory of concat_pdf held when it was called
ConcatInputs ==
    { p \in Paths : /\ p.dir = call.indir /\ p.ext = "pdf"
                    /\ (IF p = call.out THEN call.outPre ELSE fs[p]) # Absent }

RECURSIVE SumPages(_)
SumPages(ins) == IF ins = << >> THEN 0 ELSE Head(ins).n + SumPages(Tail(ins))

\* C14: when concat_pdf has written its output over a directory of readable
\* documents, every document of the directory was inserted once, the output
\* has as many pages as the documents together, the documents appear in
\* natural order of their names, and each document's pages keep their order.
C14_ConcatNaturalOrderAllPages ==
    (call.op = "concat" /\ ev.saved)
      => /\ fs[call.out] = Written("concat")
         /\ { ev.inserted[k].file : k \in DOMAIN ev.inserted } = ConcatInputs
         /\ Len(ev.inserted) = Cardinality(ConcatInputs)
         /\ Len(outPages) = SumPages(ev.inserted)
         /\ \A k \in DOMAIN ev.inserted :
              { outPages[j].src : j \in { i \in DOMAIN outPages :
                                            outPages[i].file = ev.inserted[k].file } }
                = 1..ev.inserted[k].n
         /\ \A i, j \in DOMAIN outPages :
              i < j => \/ StemValue(outPages[i].file.stem) < StemValue(outPages[j].file.stem)
                       \/ /\ outPages[i].file = outPages[j].file
                          /\ outPages[i].src < outPages[j].src

\* 1.pdf, 2.pdf and 10.pdf were merged, 10.pdf last, one of them of two pages
C14_Witness ==
    /\ call.op = "concat" /\ ev.saved
    /\ Len(ev.inserted) = 3
    /\ Len(outPages) > 3
    /\ outPages[Len(outPages)].file.stem = <<1, 0>>

\* C15: in pagenum_to_pdf and header_and_pagenum_to_pdf the page-number text
\* inserted for the source page of 0-based index i is exactly "{i+1}", or
\* exactly "{i+1} / {totalPages}" when the total is shown: nothing precedes
\* the number, and totalPages is the page count of the source document.
C15_PageNumberText ==
    call.op \in {"pagenum", "combined"}
      => \A k \in DOMAIN outPages :
           \A n \in DOMAIN outPages[k].calls :
             LET e == outPages[k].calls[n]
             IN  (e.f = "insert_textbox" /\ e.t.kind = "pagenum")
                   => /\ ~e.t.lead
                      /\ e.t.num = outPages[k].src
                      /\ e.t.total = IF call.cfg.showTotal THEN Len(srcPages) ELSE 0

\* the text before the first occurrence of a delimiter's character, the
\* whole text when the delimiter is No or its character does not occur
PrefixBefore(text, d) ==
    LET ch   == IF d = "Space" THEN CharSpace ELSE DelimChar(d)
        hits == IF d = "No" THEN {} ELSE { n \in DOMAIN text : text[n] = ch }
    IN  IF hits = {} THEN text
        ELSE SubSeq(text, 1, (CHOOSE n \in hits : \A m \in hits : n <= m) - 1)

\* C16: split_by_delimiter never raises and returns the text before the
\* first occurrence of the delimiter's character, or the text unchanged when
\* the delimiter is No or its character does not occur, for every text, the
\* empty one and those starting with or made of the delimiter included.
C16_SplitReturnsPrefix ==
    ev.split # "none"
      => /\ ev.split = "ok"
         /\ ev.headerText = PrefixBefore(ev.splitArgs[1], ev.splitArgs[2])

\* the calls f made, with a text of the given kind, while output page k was built
TextCalls(k, kind) ==
    { n \in DOMAIN outPages[k].calls :
        outPages[k].calls[n].f = "insert_textbox" /\ outPages[k].calls[n].t.kind = kind }

\* output page k received the content of its source page (show_pdf_page ran)
Composited(k) ==
    \E n \in DOMAIN outPages[k].calls : outPages[k].calls[n].f = "show_pdf_page"

\* C17: in header_to_pdf and header_and_pagenum_to_pdf, with
\* stamp_only_firstpage true the header text is written on the first page and
\* on no other page; with it false the header text is written on every
\* composited page.
C17_HeaderTextOnFirstPageOnly ==
    call.op \in {"header", "combined"}
      => \A k \in DOMAIN outPages :
           Composited(k)
             => IF call.cfg.stampFirst
                THEN (TextCalls(k, "header") # {}) <=> (outPages[k].src = 1)
                ELSE TextCalls(k, "header") # {}

\* the output pages a step of the page loop adds
AddedPages == SubSeq(outPages', Len(outPages) + 1, Len(outPages'))

\* remove_rotation is the first call made for a page that came in rotated,
\* so every other call of the iteration runs on the unrotated page
RotationRemovedFirst(p, pages) ==
    p.rot # 0
      => /\ pages # << >>
         /\ pages[1].calls # << >>
         /\ pages[1].calls[1].f = "remove_rotation"

\* C19: in every per-page operation (masking, grid, header, page number,
\* combined) a page whose rotation is non-zero has its rotation removed
\* before its width and height are read and before any region is computed,
\* any content is embedded, or anything is drawn or masked on it: every
\* iteration of the page loop starts with the removal and leaves the page
\* with rotation 0.
C19_RotationRemovedBeforeLayout ==
    [][ (pc = "page" /\ pageIdx <= Len(srcPages) /\ pageIdx' = pageIdx + 1)
          => /\ RotationRemovedFirst(srcPages[pageIdx], AddedPages)
             /\ srcPages'[pageIdx].rot = 0 ]_vars

\* a rotated page went through header_and_pagenum_to_pdf: its rotation was
\* removed, then the page was laid out and its content embedded
C19_Witness ==
    /\ call.op = "combined"
    /\ \E k \in DOMAIN outPages :
         /\ Len(outPages[k].calls) > 1
         /\ outPages[k].calls[1].f = "remove_rotation"
         /\ Composited(k)
         /\ srcPages[outPages[k].src].rot = 0

\* the rectangle a proportion-preserving fit places a w x h page into:
\* scale = min(target.width / w, target.height / h), centered in target
FitRect(w, h, target) ==
    LET tw    == Whole(RectWidth(target))
        th    == Whole(RectHeight(target))
        scale == RatMin(RatDiv(tw, Whole(w)), RatDiv(th, Whole(h)))
        fw    == RatMul(Whole(w), scale)
        fh    == RatMul(Whole(h), scale)
        x0    == RatAdd(Whole(target.x0), RatDiv(RatSub(tw, fw), Whole(2)))
        y0    == RatAdd(Whole(target.y0), RatDiv(RatSub(th, fh), Whole(2)))
    IN  Rect(x0, y0, RatAdd(x0, fw), RatAdd(y0, fh))

\* the first call named f made for output page k
FirstCall(k, f) == Head(CallsNamed(outPages[k], f))

\* C20: in header_and_pagenum_to_pdf with resize_original and
\* draw_content_border enabled, header_height >= 0, footer_height >= 0 and a
\* non-collapsed content region, the frame rectangle that is drawn is exactly
\* the rectangle the proportion-preserving fit, centered in the content
\* region, places the original page into.
C20_FrameEqualsFittedPage ==
    ( /\ call.op = "combined"
      /\ call.cfg.resize /\ call.cfg.drawBorder
      /\ call.cfg.hh >= 0 /\ call.cfg.fh >= 0 )
      => \A k \in DOMAIN outPages :
           CallsNamed(outPages[k], "draw_border") # << >>
             => LET page    == FirstCall(k, "new_page").r
                    content == FirstCall(k, "content_rect").r
                IN  FirstCall(k, "draw_border").r
                      = FitRect(RectWidth(page), RectHeight(page), content)

\* a frame was drawn around a 200 x 300 page shrunk between a header of 70
\* and a footer of 30: its left edge lies at 100/3 points
C20_Witness ==
    /\ call.op = "combined" /\ call.cfg.resize /\ call.cfg.drawBorder
    /\ call.cfg.hh = 70 /\ call.cfg.fh = 30
    /\ \E k \in DOMAIN outPages :
         /\ CallsNamed(outPages[k], "draw_border") # << >>
         /\ FirstCall(k, "draw_border").r.x0 = Rat(100, 3)
         /\ FirstCall(k, "draw_border").r.y0 = Whole(70)

\* all three passes were finished and the shape committed on output page k
ThreePassesDone(k) ==
    /\ \A m \in {1, 5, 10} : CallsAt(outPages[k], "finish", m) # {}
    /\ CallsNamed(outPages[k], "commit") # << >>

\* C21: for every readable input document, every guard-passing output path
\* and every positive grid_interval, including non-integer values and values
\* below 1, grid_to_pdf completes all three passes on every page and writes
\* the output file.
C21_GridCompletesForEveryInterval ==
    (call.op = "grid" /\ call.cfg.interval > 0 /\ Finished)
      => /\ ev.saved
         /\ fs[call.out] = Written("grid")
         /\ \A i \in DOMAIN srcPages :
              \E k \in PagesFor(i) : ThreePassesDone(k)

\* the run of concat_pdf has failed: an open or an insert_file raised (the
\* except block then ran), or it is about to run
ConcatFailed == ev.openFailed \/ ev.error \/ pc = "except"

\* C22: concat_pdf is all-or-nothing: if opening or inserting any one of the
\* input documents fails, no output file is written at all; the output file
\* is written only after every input document of the directory has been
\* inserted, and never with only a prefix of the inputs.
C22_ConcatAllOrNothing ==
    call.op = "concat"
      => /\ ConcatFailed => (~ev.saved /\ fs[call.out] = call.outPre)
         /\ fs[call.out] # call.outPre => ev.saved
         /\ ev.saved => /\ queue = << >>
                        /\ { ev.inserted[n].file : n \in DOMAIN ev.inserted }
                             = ConcatInputs
                        /\ Len(outPages) = SumPages(ev.inserted)

\* the first document was inserted, a later one failed, the call has
\* returned and the output path holds what it held before the call
C22_Witness ==
    /\ call.op = "concat" /\ Finished
    /\ ev.error /\ Len(ev.inserted) >= 1 /\ queue # << >>
    /\ ~ev.saved /\ fs[call.out] = call.outPre

====
